---- MODULE Spec2Model ----
(***************************************************************************)
(* Model of two pieces of vsgExamples:                                     *)
(*   - Builder (examples/traversals/vsgintersection/Builder.cpp), the      *)
(*     geometry factory with its caches, checked under BuilderSpec;        *)
(*   - GlobeTrackball (examples/nodes/vsgpagedlod/GlobeTrackball.cpp),     *)
(*     the camera controller, checked under Spec.                          *)
(***************************************************************************)
EXTENDS Integers, Sequences, FiniteSets, TLC

(* ------------------------------ bounds --------------------------------- *)
NumPositions == 1
NumColors == 2
NumImages == 1
MaxNodes == 2
MaxTextures == 2
MaxAltitude == 5

(* A null ref_ptr. *)
Null == 0

(***************************************************************************)
(*                               Builder                                   *)
(***************************************************************************)
VARIABLES
    _compile,                 \* TRUE once setup() created the CompileTraversal
    poolMaxSets,              \* capacity of the descriptor pool made by setup()
    _allocatedTextureCount,
    _maxNumTextures,
    _colorData,               \* color -> generated image
    _textureDescriptorSets,   \* texture data -> BindDescriptorSets
    _bindGraphicsPipeline,    \* Null or the pipeline binding
    _boxes,                   \* GeometryInfo -> node (Null for an empty ref_ptr)
    geometryType,             \* public member selecting the quad's command layout
    shadersFound,             \* whether the two SPIR-V files can be read
    nodes,                    \* every StateGroup built so far, indexed by identity
    images,                   \* number of color images generated
    bindings,                 \* number of BindDescriptorSets created
    compiles,                 \* number of compile traversals run
    ret,                      \* the last create call and what it returned
    firstBox,                 \* GeometryInfo -> node returned by the first createBox
    firstQuad                 \* GeometryInfo -> node returned by the first createQuad

bvars == <<_compile, poolMaxSets, _allocatedTextureCount, _maxNumTextures, _colorData,
           _textureDescriptorSets, _bindGraphicsPipeline, _boxes, geometryType,
           shadersFound, nodes, images, bindings, compiles, ret, firstBox, firstQuad>>

GeometryTypes == {"DRAW_COMMANDS", "DRAW_INDEXED_COMMANDS", "GEOMETRY", "VERTEX_INDEX_DRAW"}

(* GeometryInfo: the fields Builder.cpp reads (position, color, image);      *)
(* dimensions only scale the vertices and are left out of the key's domain. *)
GeometryInfo == [position : 1..NumPositions, color : 1..NumColors, image : Null..NumImages]

(* std::map::operator[] : the entry, default-constructed when absent *)
At(map, key) == IF key \in DOMAIN map THEN map[key] ELSE Null

Put(map, key, value) == [k \in DOMAIN map \cup {key} |-> IF k = key THEN value ELSE map[k]]

(* void Builder::setup(window, viewport, maxNumTextures) *)
setup(maxNumTextures) ==
    /\ _compile' = TRUE
    /\ poolMaxSets' = maxNumTextures
    /\ _allocatedTextureCount' = 0
    /\ _maxNumTextures' = maxNumTextures
    /\ ret' = [op |-> "setup", info |-> Null, node |-> Null, built |-> FALSE,
               compiled |-> FALSE, repeat |-> FALSE]
    /\ UNCHANGED <<_colorData, _textureDescriptorSets, _bindGraphicsPipeline, _boxes,
                   geometryType, shadersFound, nodes, images, bindings, compiles, firstBox,
                   firstQuad>>

(* _createTexture without "if (bindDescriptorSets) return bindDescriptorSets": *)
(* every call creates a binding                                              *)
_createTexture_Unshared(info) ==
    LET generated == info.image = Null /\ info.color \notin DOMAIN _colorData
        textureData == IF info.image # Null THEN [kind |-> "image", id |-> info.image]
                       ELSE IF info.color \in DOMAIN _colorData THEN _colorData[info.color]
                       ELSE [kind |-> "color", id |-> images + 1]
        colorData == IF generated THEN Put(_colorData, info.color, textureData) ELSE _colorData
    IN  [colorData |-> colorData,
         images |-> IF generated THEN images + 1 ELSE images,
         sets |-> Put(_textureDescriptorSets, textureData, bindings + 1),
         bindings |-> bindings + 1,
         binding |-> bindings + 1]

(* Builder::_createTexture : the texture data chosen for info, and the maps  *)
(* and counters after the call.                                             *)
_createTexture(info) ==
    LET generated == info.image = Null /\ info.color \notin DOMAIN _colorData
        textureData == IF info.image # Null THEN [kind |-> "image", id |-> info.image]
                       ELSE IF info.color \in DOMAIN _colorData THEN _colorData[info.color]
                       ELSE [kind |-> "color", id |-> images + 1]
        colorData == IF generated THEN Put(_colorData, info.color, textureData) ELSE _colorData
        found == At(_textureDescriptorSets, textureData)
    IN  [colorData |-> colorData,
         images |-> IF generated THEN images + 1 ELSE images,
         sets |-> IF found # Null THEN _textureDescriptorSets
                  ELSE Put(_textureDescriptorSets, textureData, bindings + 1),
         bindings |-> IF found # Null THEN bindings ELSE bindings + 1,
         binding |-> IF found # Null THEN found ELSE bindings + 1]

(* Builder::_createGraphicsPipeline : the binding returned and the member after *)
_createGraphicsPipeline ==
    IF _bindGraphicsPipeline # Null THEN [binding |-> _bindGraphicsPipeline, member |-> _bindGraphicsPipeline]
    ELSE IF ~shadersFound THEN [binding |-> Null, member |-> Null]
    ELSE [binding |-> 1, member |-> 1]

(* void Builder::compile(subgraph) : the traversal runs only when _compile is set *)
compile == IF _compile THEN compiles + 1 ELSE compiles

(* The mesh createBox builds: 24 vertices, 36 indices, one DrawIndexed *)
BoxMesh(info, pipeline, texture) ==
    [shape |-> "box", info |-> info, vertices |-> 24, indices |-> 36, drawn |-> 36,
     layout |-> "DRAW_INDEXED_COMMANDS", pipeline |-> pipeline, texture |-> texture,
     compiled |-> _compile]

(* The mesh createQuad builds: 4 vertices, 6 indices, laid out per geometryType *)
QuadMesh(info, pipeline, texture) ==
    [shape |-> "quad", info |-> info, vertices |-> 4, indices |-> 6, drawn |-> 6,
     layout |-> geometryType, pipeline |-> pipeline, texture |-> texture,
     compiled |-> _compile]

Triangles(node) == node.drawn \div 3

(* The first node a create function returned for each descriptor *)
Remember(first, info, node) == IF info \in DOMAIN first THEN first ELSE Put(first, info, node)

(* createBox with its last assignment, subgraph = scenegraph, left out *)
StoreBox_Dropped(info, scenegraph) == Put(_boxes, info, Null)

(* createBox, "subgraph = scenegraph": the new node fills the entry of _boxes *)
StoreBox(info, scenegraph) == Put(_boxes, info, scenegraph)

(* createQuad returns scenegraph and leaves the entry _boxes[info] empty *)
LeaveQuad(info, scenegraph) == Put(_boxes, info, Null)

(* vsg::ref_ptr<vsg::Node> Builder::createBox(const GeometryInfo& info) *)
createBoxAs(op, info) ==
    LET subgraph == At(_boxes, info)
        pipeline == _createGraphicsPipeline
        texture == _createTexture(info)
        scenegraph == Len(nodes) + 1
    IN  IF subgraph # Null
        THEN /\ ret' = [op |-> op, info |-> info, node |-> subgraph, built |-> FALSE,
                        compiled |-> FALSE, repeat |-> info \in DOMAIN firstBox]
             /\ firstBox' = Remember(firstBox, info, subgraph)
             /\ UNCHANGED <<_compile, poolMaxSets, _allocatedTextureCount, _maxNumTextures,
                            _colorData, _textureDescriptorSets, _bindGraphicsPipeline, _boxes,
                            geometryType, shadersFound, nodes, images, bindings, compiles,
                            firstQuad>>
        ELSE /\ Len(nodes) < MaxNodes
             /\ _bindGraphicsPipeline' = pipeline.member
             /\ _colorData' = texture.colorData
             /\ images' = texture.images
             /\ _textureDescriptorSets' = texture.sets
             /\ bindings' = texture.bindings
             /\ nodes' = Append(nodes, BoxMesh(info, pipeline.binding, texture.binding))
             /\ compiles' = compile
             /\ _boxes' = StoreBox(info, scenegraph)
             /\ ret' = [op |-> op, info |-> info, node |-> scenegraph, built |-> TRUE,
                        compiled |-> _compile, repeat |-> info \in DOMAIN firstBox]
             /\ firstBox' = Remember(firstBox, info, scenegraph)
             /\ UNCHANGED <<_compile, poolMaxSets, _allocatedTextureCount, _maxNumTextures,
                            geometryType, shadersFound, firstQuad>>

createBox(info) == createBoxAs("createBox", info)

(* createCapsule, createCone, createCylinder, createSphere: return createBox(info) *)
createCapsule(info) == createBoxAs("createCapsule", info)

createCone(info) == createBoxAs("createCone", info)

createCylinder(info) == createBoxAs("createCylinder", info)

(* A createSphere that builds its own mesh and never reads _boxes *)
createSphere_Uncached(info) ==
    LET pipeline == _createGraphicsPipeline
        texture == _createTexture(info)
        scenegraph == Len(nodes) + 1
    IN  /\ Len(nodes) < MaxNodes
        /\ _bindGraphicsPipeline' = pipeline.member
        /\ _colorData' = texture.colorData
        /\ images' = texture.images
        /\ _textureDescriptorSets' = texture.sets
        /\ bindings' = texture.bindings
        /\ nodes' = Append(nodes, BoxMesh(info, pipeline.binding, texture.binding))
        /\ compiles' = compile
        /\ ret' = [op |-> "createSphere", info |-> info, node |-> scenegraph, built |-> TRUE,
                   compiled |-> _compile, repeat |-> info \in DOMAIN firstBox]
        /\ firstBox' = Remember(firstBox, info, scenegraph)
        /\ UNCHANGED <<_compile, poolMaxSets, _allocatedTextureCount, _maxNumTextures, _boxes,
                       geometryType, shadersFound, firstQuad>>

createSphere(info) == createBoxAs("createSphere", info)

(* vsg::ref_ptr<vsg::Node> Builder::createQuad(const GeometryInfo& info) *)
createQuad(info) ==
    LET subgraph == At(_boxes, info)
        pipeline == _createGraphicsPipeline
        texture == _createTexture(info)
        scenegraph == Len(nodes) + 1
    IN  IF subgraph # Null
        THEN /\ ret' = [op |-> "createQuad", info |-> info, node |-> subgraph, built |-> FALSE,
                        compiled |-> FALSE, repeat |-> info \in DOMAIN firstQuad]
             /\ firstQuad' = Remember(firstQuad, info, subgraph)
             /\ UNCHANGED <<_compile, poolMaxSets, _allocatedTextureCount, _maxNumTextures,
                            _colorData, _textureDescriptorSets, _bindGraphicsPipeline, _boxes,
                            geometryType, shadersFound, nodes, images, bindings, compiles,
                            firstBox>>
        ELSE /\ Len(nodes) < MaxNodes
             /\ _bindGraphicsPipeline' = pipeline.member
             /\ _colorData' = texture.colorData
             /\ images' = texture.images
             /\ _textureDescriptorSets' = texture.sets
             /\ bindings' = texture.bindings
             /\ nodes' = Append(nodes, QuadMesh(info, pipeline.binding, texture.binding))
             /\ compiles' = compile
             /\ _boxes' = LeaveQuad(info, scenegraph)
             /\ ret' = [op |-> "createQuad", info |-> info, node |-> scenegraph, built |-> TRUE,
                        compiled |-> _compile, repeat |-> info \in DOMAIN firstQuad]
             /\ firstQuad' = Remember(firstQuad, info, scenegraph)
             /\ UNCHANGED <<_compile, poolMaxSets, _allocatedTextureCount, _maxNumTextures,
                            geometryType, shadersFound, firstBox>>

BuilderInit ==
    /\ _compile = FALSE
    /\ poolMaxSets = 0
    /\ _allocatedTextureCount = 0
    /\ _maxNumTextures = 0
    /\ _colorData = <<>>
    /\ _textureDescriptorSets = <<>>
    /\ _bindGraphicsPipeline = Null
    /\ _boxes = <<>>
    /\ geometryType \in GeometryTypes
    /\ shadersFound \in BOOLEAN
    /\ nodes = <<>>
    /\ images = 0
    /\ bindings = 0
    /\ compiles = 0
    /\ ret = [op |-> "none", info |-> Null, node |-> Null, built |-> FALSE,
              compiled |-> FALSE, repeat |-> FALSE]
    /\ firstBox = <<>>
    /\ firstQuad = <<>>

(***************************************************************************)
(*                            GlobeTrackball                               *)
(*                                                                         *)
(* Doubles are modelled by integers, so the inputs are limited to the ones *)
(* on which the arithmetic of the code is exact:                           *)
(*   - points lie on the coordinate axes of the ECEF frame and directions  *)
(*     are axis unit vectors;                                              *)
(*   - angles are counted in quarter turns (asin(1) = 1);                  *)
(*   - a vector with a non-finite component is the one value NaN.          *)
(***************************************************************************)
VARIABLES
    _lookAt,                            \* [eye, center, up] of the camera's LookAt
    _homeLookAt,                        \* [eye, center, up] captured by the constructor
    _hasFocus,
    _lastPointerEventWithinRenderArea,
    _updateMode,
    _zoomPreviousRatio,
    _pan,
    _rotateAngle,
    _rotateAxis,
    prev_ndc,
    prev_tbc,
    first_frame,
    divisions,                          \* the divisors of the last handler's clampToGlobe call
    event                               \* the last event delivered and its handled flag

tvars == <<_lookAt, _homeLookAt, _hasFocus, _lastPointerEventWithinRenderArea, _updateMode,
           _zoomPreviousRatio, _pan, _rotateAngle, _rotateAxis, prev_ndc, prev_tbc,
           first_frame, divisions, event>>

(* ------------------------ vsg vectors (finite) ------------------------- *)
NaN == <<>>

Abs(x) == IF x < 0 THEN -x ELSE x

Sign(x) == IF x < 0 THEN -1 ELSE IF x > 0 THEN 1 ELSE 0

Add(a, b) == <<a[1] + b[1], a[2] + b[2], a[3] + b[3]>>

Sub(a, b) == <<a[1] - b[1], a[2] - b[2], a[3] - b[3]>>

Scale(a, k) == <<a[1] * k, a[2] * k, a[3] * k>>

Dot(a, b) == a[1] * b[1] + a[2] * b[2] + a[3] * b[3]

Cross(a, b) == <<a[2] * b[3] - a[3] * b[2], a[3] * b[1] - a[1] * b[3], a[1] * b[2] - a[2] * b[1]>>

(* vsg::length, exact on vectors along one axis *)
Length(a) == Abs(a[1]) + Abs(a[2]) + Abs(a[3])

OnAxis(a) == Cardinality({i \in 1..3 : a[i] # 0}) <= 1

(* vsg::normalize: v / length(v), which is 0/0 for the zero vector *)
Normalize(a) == IF Length(a) = 0 THEN NaN
                ELSE <<a[1] \div Length(a), a[2] \div Length(a), a[3] \div Length(a)>>

(* vsg::rotate(angle, axis) applied to v, for angle in quarter turns and a unit axis *)
Rotate(angle, axis, v) ==
    LET along == Scale(axis, Dot(axis, v))
        q == angle % 4
    IN  IF q = 0 THEN v
        ELSE IF q = 1 THEN Add(along, Cross(axis, v))
        ELSE IF q = 2 THEN Sub(Scale(along, 2), v)
        ELSE Sub(along, Cross(axis, v))

(* ----------------------- vsg::EllipsoidModel --------------------------- *)
radiusEquator == 8

radiusPolar == 7

(* EllipsoidModel::convertECEFToLatLongAltitude for a point on an axis;     *)
(* latitude and longitude in quarter turns; the centre counts as the pole.  *)
convertECEFToLatLongAltitude(ecef) ==
    IF ecef = NaN THEN NaN
    ELSE IF ecef[1] # 0 THEN [lat |-> 0, long |-> IF ecef[1] > 0 THEN 0 ELSE 2,
                              z |-> Abs(ecef[1]) - radiusEquator]
    ELSE IF ecef[2] # 0 THEN [lat |-> 0, long |-> Sign(ecef[2]), z |-> Abs(ecef[2]) - radiusEquator]
    ELSE IF ecef[3] < 0 THEN [lat |-> -1, long |-> 0, z |-> -ecef[3] - radiusPolar]
    ELSE [lat |-> 1, long |-> 0, z |-> ecef[3] - radiusPolar]

(* EllipsoidModel::convertLatLongAltitudeToECEF *)
convertLatLongAltitudeToECEF(lla) ==
    IF lla = NaN THEN NaN
    ELSE IF lla.lat # 0 THEN <<0, 0, lla.lat * (radiusPolar + lla.z)>>
    ELSE IF lla.long = 0 THEN <<radiusEquator + lla.z, 0, 0>>
    ELSE IF lla.long = 2 THEN <<-(radiusEquator + lla.z), 0, 0>>
    ELSE <<0, lla.long * (radiusEquator + lla.z), 0>>

Altitude(ecef) == convertECEFToLatLongAltitude(ecef).z

minimum_altitude == 1

(* --------------------------- clampToGlobe ------------------------------ *)
(* center * ratio + eye * (1.0 - ratio) for ratio = num / den *)
Interpolate(center, eye, num, den) ==
    <<(center[1] * num + eye[1] * (den - num)) \div den,
      (center[2] * num + eye[2] * (den - num)) \div den,
      (center[3] * num + eye[3] * (den - num)) \div den>>

(* The new center: the point of the line eye-center at altitude 0, put on the surface *)
ClampedCenter(la) ==
    LET location_center == convertECEFToLatLongAltitude(la.center)
        location_eye == convertECEFToLatLongAltitude(la.eye)
    IN  IF la.center = NaN \/ la.eye = NaN THEN NaN
        ELSE IF location_eye.z - location_center.z = 0 THEN NaN
        ELSE LET location == convertECEFToLatLongAltitude(
                                 Interpolate(la.center, la.eye, location_eye.z,
                                             location_eye.z - location_center.z))
             IN  convertLatLongAltitudeToECEF([location EXCEPT !.z = 0])

(* The new eye: raised to minimum_altitude when it is lower; NaN < 1.0 is false *)
ClampedEye(la) ==
    LET location_eye == convertECEFToLatLongAltitude(la.eye)
    IN  IF la.eye = NaN THEN NaN
        ELSE IF location_eye.z < minimum_altitude
             THEN convertLatLongAltitudeToECEF([location_eye EXCEPT !.z = minimum_altitude])
             ELSE la.eye

(* void GlobeTrackball::clampToGlobe(), with an ellipsoid model *)
clampToGlobe(la) == [eye |-> ClampedEye(la), center |-> ClampedCenter(la), up |-> la.up]

(* The divisor of "location_eye.z / (location_eye.z - location_center.z)" in a *)
(* clampToGlobe call on la, for finite operands                               *)
Division(la) ==
    IF la.center = NaN \/ la.eye = NaN THEN {}
    ELSE {Altitude(la.eye) - Altitude(la.center)}

(* --------------------------- rotate, zoom, pan -------------------------- *)
AllNaN == [eye |-> NaN, center |-> NaN, up |-> NaN]

HasNaN(la) == la.eye = NaN \/ la.center = NaN \/ la.up = NaN

(* The point p moved by "inverse(lv) * translate(c) * rotation * translate(-c) * lv": *)
(* turned about the center, around the axis given in eye coordinates, where  *)
(* lv = lookAt(eye, center, up) has the rows side, up and -look.              *)
TurnAboutCenter(la, angle, axis, p) ==
    LET look == Normalize(Sub(la.center, la.eye))
        side == Normalize(Cross(look, la.up))
        upward == Cross(side, look)
        worldAxis == Add(Add(Scale(side, axis[1]), Scale(upward, axis[2])), Scale(look, -axis[3]))
    IN  Add(la.center, Rotate(angle, worldAxis, Sub(p, la.center)))

(* GlobeTrackball::rotate up to its clampToGlobe call *)
Rotated(la, angle, axis) ==
    IF HasNaN(la) THEN AllNaN
    ELSE IF Sub(la.center, la.eye) = <<0, 0, 0>> THEN AllNaN
    ELSE IF Cross(Sub(la.center, la.eye), la.up) = <<0, 0, 0>> THEN AllNaN
    ELSE [up |-> Normalize(Sub(TurnAboutCenter(la, angle, axis, Add(la.eye, la.up)),
                               TurnAboutCenter(la, angle, axis, la.eye))),
          center |-> TurnAboutCenter(la, angle, axis, la.center),
          eye |-> TurnAboutCenter(la, angle, axis, la.eye)]

(* void GlobeTrackball::rotate(double angle, const dvec3& axis) *)
rotate(la, angle, axis) == clampToGlobe(Rotated(la, angle, axis))

(* GlobeTrackball::zoom up to its clampToGlobe call: eye + lookVector * ratio, *)
(* the ratio given in tenths                                                  *)
Zoomed(la, ratio10) ==
    IF la.eye = NaN \/ la.center = NaN THEN [la EXCEPT !.eye = NaN]
    ELSE LET lookVector == Sub(la.center, la.eye)
         IN  [la EXCEPT !.eye = <<(10 * la.eye[1] + lookVector[1] * ratio10) \div 10,
                                  (10 * la.eye[2] + lookVector[2] * ratio10) \div 10,
                                  (10 * la.eye[3] + lookVector[3] * ratio10) \div 10>>]

(* void GlobeTrackball::zoom(double ratio) *)
zoom(la, ratio10) == clampToGlobe(Zoomed(la, ratio10))

(* length(v) / radiusEquator in whole quarter turns (pi = 22/7), v given in tenths *)
QuarterTurns(v10) == (Length(v10) * 14) \div (220 * radiusEquator)

(* pan's vector v, in tenths: distance is scaled by 0.3 *)
PanVector(la, delta) ==
    LET lookVector == Sub(la.center, la.eye)
        lookNormal == Normalize(lookVector)
        sideNormal == Cross(lookNormal, la.up)
        globeNormal == Normalize(la.center)
        scale10 == 3 * Length(lookVector)
        m == Add(Scale(la.up, -scale10 * delta[2]), Scale(sideNormal, scale10 * delta[1]))
    IN  Add(m, Scale(lookNormal, Dot(m, globeNormal)))

(* "angle != 0.0" in pan: true of a NaN angle as well *)
PanTurns(la, delta) ==
    IF HasNaN(la) THEN TRUE
    ELSE IF Sub(la.center, la.eye) = <<0, 0, 0>> \/ la.center = <<0, 0, 0>> THEN TRUE
    ELSE Length(PanVector(la, delta)) # 0

(* GlobeTrackball::pan, ellipsoid branch, up to its clampToGlobe call *)
Panned(la, delta) ==
    IF HasNaN(la) THEN AllNaN
    ELSE IF Sub(la.center, la.eye) = <<0, 0, 0>> \/ la.center = <<0, 0, 0>> THEN AllNaN
    ELSE LET v == PanVector(la, delta)
             angle == QuarterTurns(v)
             globeNormal == Normalize(la.center)
             \* normalize(center + v) only rescales the cross product
             axis == Normalize(Cross(globeNormal, Add(Scale(la.center, 10), v)))
         IN  [up |-> Normalize(Sub(Rotate(-angle, axis, Add(la.eye, la.up)),
                                   Rotate(-angle, axis, la.eye))),
              center |-> Rotate(-angle, axis, la.center),
              eye |-> Rotate(-angle, axis, la.eye)]

(* void GlobeTrackball::pan(const dvec2& delta), with an ellipsoid model *)
pan(la, delta) == IF PanTurns(la, delta) THEN clampToGlobe(Panned(la, delta)) ELSE la

(* ------------------------------ pointer -------------------------------- *)
(* _camera->getRenderArea() *)
renderArea == [offset |-> [x |-> 0, y |-> 0], extent |-> [width |-> 2, height |-> 2]]

(* Pointer positions: the centre of the render area, its left neighbour and *)
(* the pixel below it, which is outside                                    *)
Pixels == {<<1, 1>>, <<1, 2>>}

(* Button masks of pointer events *)
Masks == {{}, {1}, {2}, {3}, {1, 2}, {2, 3}}

Keys == {"KEY_Space", "KEY_a"}

_homeKey == "KEY_Space"

(* scrollWheel.delta.y *)
ScrollDeltas == {-10, 5, 10, 20}

(* (frame.time - prev_time) * 60 *)
FrameTicks == {2, 10}

(* bool GlobeTrackball::withinRenderArea(int32_t x, int32_t y) const *)
withinRenderArea(x, y) ==
    /\ x >= renderArea.offset.x /\ x < renderArea.offset.x + renderArea.extent.width
    /\ y >= renderArea.offset.y /\ y < renderArea.offset.y + renderArea.extent.height

(* dvec2 GlobeTrackball::ndc(PointerEvent& event) *)
ndc(x, y) ==
    LET aspectRatio == renderArea.extent.width \div renderArea.extent.height
    IN  <<IF renderArea.extent.width > 0
          THEN (((x - renderArea.offset.x) * 2 - renderArea.extent.width)
                    \div renderArea.extent.width) * aspectRatio
          ELSE 0,
          IF renderArea.extent.height > 0
          THEN ((y - renderArea.offset.y) * 2 - renderArea.extent.height)
                    \div renderArea.extent.height
          ELSE 0>>

(* dvec3 GlobeTrackball::tbc(PointerEvent& event); l < 1 only at l = 0, where h = 1 *)
tbc(x, y) ==
    LET v == ndc(x, y)
    IN  IF v[1] * v[1] + v[2] * v[2] < 1 THEN <<v[1], -v[2], 1>> ELSE <<v[1], -v[2], 0>>

(* asin of 0 and of 1, in quarter turns *)
Asin(x) == IF x = 0 THEN 0 ELSE 1

(* ------------------------------ handlers ------------------------------- *)
(* What the last handler was given and what it answered: the event's type,   *)
(* its handled flag on entry and on return, whether its pointer position is  *)
(* within the render area, its button mask, its key, whether a drag's        *)
(* pointer stood still, and whether the handler changed the view             *)
Delivered(type, handled, handledOut, inside, mask, key, still, changed) ==
    [type |-> type, handled |-> handled, handledOut |-> handledOut, inside |-> inside,
     mask |-> mask, key |-> key, still |-> still, changed |-> changed]

(* The restored view without its up vector *)
RestoredView_UpKept ==
    [eye |-> _homeLookAt.eye, center |-> _homeLookAt.center, up |-> _lookAt.up]

(* lookAt->eye = _homeLookAt->eye; center and up likewise *)
RestoredView ==
    [eye |-> _homeLookAt.eye, center |-> _homeLookAt.center, up |-> _homeLookAt.up]

(* void GlobeTrackball::apply(KeyPressEvent& keyPress) *)
apply_KeyPressEvent(keyBase, handled) ==
    LET accepted == ~(handled \/ ~_lastPointerEventWithinRenderArea) /\ keyBase = _homeKey
        view == IF accepted THEN RestoredView ELSE _lookAt
    IN  /\ _lookAt' = view
        /\ divisions' = {}
        /\ event' = Delivered("KeyPress", handled, handled \/ accepted, FALSE, {}, keyBase,
                              FALSE, view # _lookAt)
        /\ UNCHANGED <<_homeLookAt, _hasFocus, _lastPointerEventWithinRenderArea, _updateMode,
                       _zoomPreviousRatio, _pan, _rotateAngle, _rotateAxis, prev_ndc, prev_tbc,
                       first_frame>>

(* The mode of a mask with the buttons tried in the order 3, 2, 1 *)
ModeOf_Reversed(mask) ==
    IF 3 \in mask THEN "ZOOM"
    ELSE IF 2 \in mask THEN "PAN"
    ELSE IF 1 \in mask THEN "ROTATE"
    ELSE "INACTIVE"

(* The mode a button mask selects: button 1, then 2, then 3 *)
ModeOf(mask) ==
    IF 1 \in mask THEN "ROTATE"
    ELSE IF 2 \in mask THEN "PAN"
    ELSE IF 3 \in mask THEN "ZOOM"
    ELSE "INACTIVE"

(* A press handler that goes on whatever the flag *)
PressReturns_Never(handled) == FALSE

(* if (buttonPress.handled) return; *)
PressReturns(handled) == handled

(* void GlobeTrackball::apply(ButtonPressEvent& buttonPress) *)
apply_ButtonPressEvent(x, y, mask, handled) ==
    /\ prev_ndc' = ndc(x, y)
    /\ prev_tbc' = tbc(x, y)
    /\ IF PressReturns(handled)
       THEN /\ event' = Delivered("ButtonPress", handled, handled, withinRenderArea(x, y), mask,
                                  "", FALSE, FALSE)
            /\ UNCHANGED <<_hasFocus, _lastPointerEventWithinRenderArea, _updateMode,
                           _zoomPreviousRatio, _pan, _rotateAngle>>
       ELSE /\ _hasFocus' = withinRenderArea(x, y)
            /\ _lastPointerEventWithinRenderArea' = withinRenderArea(x, y)
            /\ _updateMode' = ModeOf(mask)
            /\ event' = Delivered("ButtonPress", handled, handled \/ withinRenderArea(x, y),
                                  withinRenderArea(x, y), mask, "", FALSE, FALSE)
            /\ _zoomPreviousRatio' = 0
            /\ _pan' = <<0, 0>>
            /\ _rotateAngle' = 0
    /\ divisions' = {}
    /\ UNCHANGED <<_lookAt, _homeLookAt, _rotateAxis, first_frame>>

(* A release that leaves the accumulators *)
ReleaseResets_Kept == UNCHANGED <<_zoomPreviousRatio, _pan, _rotateAngle>>

(* _zoomPreviousRatio = 0.0; _pan.set(0.0, 0.0); _rotateAngle = 0.0; on release *)
ReleaseResets ==
    /\ _zoomPreviousRatio' = 0
    /\ _pan' = <<0, 0>>
    /\ _rotateAngle' = 0

(* void GlobeTrackball::apply(ButtonReleaseEvent& buttonRelease) *)
apply_ButtonReleaseEvent(x, y, handled) ==
    /\ prev_ndc' = ndc(x, y)
    /\ prev_tbc' = tbc(x, y)
    /\ _lastPointerEventWithinRenderArea' = withinRenderArea(x, y)
    /\ _hasFocus' = FALSE
    /\ _updateMode' = "INACTIVE"
    /\ ReleaseResets
    /\ divisions' = {}
    /\ event' = Delivered("ButtonRelease", handled, handled, withinRenderArea(x, y), {}, "",
                          FALSE, FALSE)
    /\ UNCHANGED <<_lookAt, _homeLookAt, _rotateAxis, first_frame>>

(* void GlobeTrackball::apply(MoveEvent& moveEvent) *)
apply_MoveEvent(x, y, mask, handled) ==
    LET new_ndc == ndc(x, y)
        new_tbc == tbc(x, y)
        xp == Cross(Normalize(new_tbc), Normalize(prev_tbc))
        xp_len == Length(xp)
        delta == <<new_ndc[1] - prev_ndc[1], new_ndc[2] - prev_ndc[2]>>
    IN  /\ _lastPointerEventWithinRenderArea' = withinRenderArea(x, y)
        /\ divisions' = {}
        /\ IF handled \/ ~_hasFocus
           THEN /\ event' = Delivered("Move", handled, handled, withinRenderArea(x, y), {}, "",
                                      FALSE, FALSE)
                /\ UNCHANGED <<_zoomPreviousRatio, _pan, _rotateAngle, _rotateAxis, prev_ndc,
                               prev_tbc>>
           ELSE /\ event' = Delivered("Move", FALSE, mask # {}, withinRenderArea(x, y), {}, "",
                                      new_ndc = prev_ndc, FALSE)
                /\ IF 1 \in mask
                   THEN /\ _rotateAngle' = IF xp_len > 0 THEN Asin(xp_len) ELSE 0
                        /\ _rotateAxis' = IF xp_len > 0 THEN Normalize(xp) ELSE _rotateAxis
                        /\ UNCHANGED <<_pan, _zoomPreviousRatio>>
                   ELSE IF 2 \in mask
                   THEN /\ _pan' = delta
                        /\ UNCHANGED <<_rotateAngle, _rotateAxis, _zoomPreviousRatio>>
                   ELSE IF 3 \in mask
                   THEN /\ _zoomPreviousRatio' = IF delta[2] # 0 THEN 2 * delta[2]
                                                 ELSE _zoomPreviousRatio
                        /\ UNCHANGED <<_rotateAngle, _rotateAxis, _pan>>
                   ELSE UNCHANGED <<_rotateAngle, _rotateAxis, _pan, _zoomPreviousRatio>>
                /\ prev_ndc' = new_ndc
                /\ prev_tbc' = new_tbc
        /\ UNCHANGED <<_lookAt, _homeLookAt, _hasFocus, _updateMode, first_frame>>

(* void GlobeTrackball::apply(ScrollWheelEvent& scrollWheel); delta.y * 0.1 in tenths *)
apply_ScrollWheelEvent(delta_y, handled) ==
    /\ IF handled
       THEN /\ divisions' = {}
            /\ UNCHANGED _lookAt
       ELSE /\ _lookAt' = zoom(_lookAt, delta_y)
            /\ divisions' = Division(Zoomed(_lookAt, delta_y))
    /\ event' = Delivered("ScrollWheel", handled, TRUE, FALSE, {}, "", FALSE, _lookAt' # _lookAt)
    /\ UNCHANGED <<_homeLookAt, _hasFocus, _lastPointerEventWithinRenderArea, _updateMode,
                   _zoomPreviousRatio, _pan, _rotateAngle, _rotateAxis, prev_ndc, prev_tbc,
                   first_frame>>

(* void GlobeTrackball::apply(FrameEvent& frame), ticks = (frame.time - prev_time) * 60 *)
apply_FrameEvent(ticks) ==
    /\ IF first_frame
       THEN /\ divisions' = {}
            /\ UNCHANGED _lookAt
       ELSE IF _updateMode = "ZOOM" /\ _zoomPreviousRatio # 0
       THEN /\ _lookAt' = zoom(_lookAt, 10 * _zoomPreviousRatio * ticks)
            /\ divisions' = Division(Zoomed(_lookAt, 10 * _zoomPreviousRatio * ticks))
       ELSE IF _updateMode = "PAN" /\ _pan # <<0, 0>>
       THEN /\ _lookAt' = pan(_lookAt, <<_pan[1] * ticks, _pan[2] * ticks>>)
            /\ divisions' = IF PanTurns(_lookAt, <<_pan[1] * ticks, _pan[2] * ticks>>)
                            THEN Division(Panned(_lookAt, <<_pan[1] * ticks, _pan[2] * ticks>>))
                            ELSE {}
       ELSE IF _updateMode = "ROTATE" /\ _rotateAngle # 0
       THEN /\ _lookAt' = rotate(_lookAt, _rotateAngle * ticks, _rotateAxis)
            /\ divisions' = Division(Rotated(_lookAt, _rotateAngle * ticks, _rotateAxis))
       ELSE /\ divisions' = {}
            /\ UNCHANGED _lookAt
    /\ first_frame' = FALSE
    /\ event' = Delivered("Frame", FALSE, FALSE, FALSE, {}, "", FALSE, _lookAt' # _lookAt)
    /\ UNCHANGED <<_homeLookAt, _hasFocus, _lastPointerEventWithinRenderArea, _updateMode,
                   _zoomPreviousRatio, _pan, _rotateAngle, _rotateAxis, prev_ndc, prev_tbc>>

(* The LookAt of the camera the trackball is constructed on: a view from a *)
(* point of the surface, straight down                                    *)
SurfaceCamera == [eye |-> <<0, 0, radiusPolar>>, center |-> <<0, 0, 0>>, up |-> <<0, 1, 0>>]

(* The member initialisers of the class declaration *)
MemberDefaults ==
    /\ _hasFocus = FALSE
    /\ _lastPointerEventWithinRenderArea = FALSE
    /\ _updateMode = "INACTIVE"
    /\ _zoomPreviousRatio = 0
    /\ _pan = <<0, 0>>
    /\ _rotateAngle = 0
    /\ _rotateAxis = <<0, 0, 0>>
    /\ prev_ndc = <<0, 0>>
    /\ prev_tbc = <<0, 0, 0>>
    /\ first_frame = TRUE

(* GlobeTrackball::GlobeTrackball(camera, ellipsoidModel) *)
TrackballInit ==
    /\ _lookAt = clampToGlobe(SurfaceCamera)
    /\ _homeLookAt = clampToGlobe(SurfaceCamera)
    /\ divisions = Division(SurfaceCamera)
    /\ MemberDefaults
    /\ event = Delivered("none", FALSE, FALSE, FALSE, {}, "", FALSE, FALSE)

(* ----------------------------- environment ----------------------------- *)
(* The zoomed eye is a lattice point above the centre of the globe, at most *)
(* MaxAltitude high                                                         *)
ZoomInRange(la, ratio10) ==
    IF la.eye = NaN \/ la.center = NaN THEN TRUE
    ELSE /\ \A i \in 1..3 : ((la.center[i] - la.eye[i]) * ratio10) % 10 = 0
         /\ Dot(Zoomed(la, ratio10).eye, la.center) > 0
         /\ Altitude(Zoomed(la, ratio10).eye) <= MaxAltitude

(* A frame that zooms keeps the eye in range *)
FrameInRange(ticks) ==
    (~first_frame /\ _updateMode = "ZOOM" /\ _zoomPreviousRatio # 0) =>
        ZoomInRange(_lookAt, 10 * _zoomPreviousRatio * ticks)

(* A move goes along one axis of the window and reports buttons that select *)
(* the mode the trackball is in                                             *)
DragInRange(x, y, mask) ==
    /\ ModeOf(mask) = _updateMode
    /\ ndc(x, y)[1] = prev_ndc[1] \/ ndc(x, y)[2] = prev_ndc[2]

(* One event is delivered *)
TrackballNext ==
    \/ \E key \in Keys, handled \in BOOLEAN : apply_KeyPressEvent(key, handled)
    \/ \E p \in Pixels, mask \in Masks : apply_ButtonPressEvent(p[1], p[2], mask, FALSE)
    \/ \E p \in Pixels : apply_ButtonPressEvent(p[1], p[2], {1}, TRUE)
    \/ \E p \in Pixels, handled \in BOOLEAN : apply_ButtonReleaseEvent(p[1], p[2], handled)
    \/ \E p \in Pixels, mask \in Masks, handled \in BOOLEAN :
          /\ DragInRange(p[1], p[2], mask)
          /\ apply_MoveEvent(p[1], p[2], mask, handled)
    \/ \E delta_y \in ScrollDeltas, handled \in BOOLEAN :
          /\ handled \/ ZoomInRange(_lookAt, delta_y)
          /\ apply_ScrollWheelEvent(delta_y, handled)
    \/ \E ticks \in FrameTicks :
          /\ FrameInRange(ticks)
          /\ apply_FrameEvent(ticks)

(* Every finite view looks straight down an axis: the arithmetic above is exact *)
ExactView ==
    ~HasNaN(_lookAt) =>
        /\ OnAxis(_lookAt.eye) /\ OnAxis(_lookAt.center) /\ OnAxis(_lookAt.up)
        /\ Length(_lookAt.up) = 1
        /\ Dot(_lookAt.eye, _lookAt.center) > 0
        /\ Dot(_lookAt.up, _lookAt.center) = 0
        /\ OnAxis(_rotateAxis)

(* ---------------------------- specifications ---------------------------- *)
vars == <<bvars, tvars>>

BuilderNext ==
    \/ \E maxNumTextures \in 1..MaxTextures : setup(maxNumTextures)
    \/ \E info \in GeometryInfo : createBox(info)
    \/ \E info \in GeometryInfo : createQuad(info)
    \/ \E info \in GeometryInfo : createCapsule(info)
    \/ \E info \in GeometryInfo : createCone(info)
    \/ \E info \in GeometryInfo : createCylinder(info)
    \/ \E info \in GeometryInfo : createSphere(info)

(* Builder alone: the trackball is constructed and receives no event *)
BuilderStart == BuilderInit /\ TrackballInit

BuilderStep == BuilderNext /\ UNCHANGED tvars

BuilderSpec == BuilderStart /\ [][BuilderStep]_vars

BuilderIdle == BuilderInit /\ shadersFound = TRUE /\ geometryType = "VERTEX_INDEX_DRAW"

(* GlobeTrackball alone: the builder is constructed and never called *)
Init == TrackballInit /\ BuilderIdle

Next == TrackballNext /\ UNCHANGED bvars

Spec == Init /\ [][Next]_vars

(***************************************************************************)
(*                        Properties of the Builder                        *)
(***************************************************************************)

(* C2: a createBox call for a descriptor that createBox was already called  *)
(* with returns the node the first call returned, and neither builds nor    *)
(* compiles a mesh, whatever create calls came in between.                  *)
C2_BoxReused ==
    (ret.op = "createBox" /\ ret.repeat) =>
        /\ ret.node = firstBox[ret.info]
        /\ ~ret.built
        /\ ~ret.compiled

(* A second createBox for the descriptor of the first node, after a quad was built in between *)
C2_Witness ==
    /\ ret.op = "createBox" /\ ret.repeat
    /\ Len(nodes) = 2
    /\ nodes[1].shape = "box" /\ nodes[1].info = ret.info
    /\ nodes[2].shape = "quad"

(* C3: a createQuad call for a descriptor that createQuad was already called *)
(* with returns the node the first call returned and builds no new mesh.     *)
C3_QuadReused ==
    (ret.op = "createQuad" /\ ret.repeat) =>
        /\ ret.node = firstQuad[ret.info]
        /\ ~ret.built

(* C4: createQuad returns a quad mesh (4 vertices, 2 triangles) and createBox *)
(* a box mesh (24 vertices, 12 triangles).                                    *)
C4_ShapeMatchesRequest ==
    /\ ret.op = "createQuad" =>
         /\ nodes[ret.node].shape = "quad"
         /\ nodes[ret.node].vertices = 4
         /\ Triangles(nodes[ret.node]) = 2
    /\ ret.op = "createBox" =>
         /\ nodes[ret.node].shape = "box"
         /\ nodes[ret.node].vertices = 24
         /\ Triangles(nodes[ret.node]) = 12

(* C8: when every node was created after setup, the number of texture        *)
(* descriptor sets the builder created is at most maxNumTextures, the         *)
(* capacity of the descriptor pool.                                           *)
C8_SetsWithinPool ==
    (_compile /\ \A n \in 1..Len(nodes) : nodes[n].compiled) =>
        /\ Cardinality(DOMAIN _textureDescriptorSets) <= _maxNumTextures
        /\ bindings <= poolMaxSets

(* C14: nodes whose descriptors have the same image, or have no image and   *)
(* the same color, hold the same texture binding; the builder created one    *)
(* binding per texture data and one color image per color.                   *)
C14_OneBindingPerTexture ==
    /\ \A m, n \in 1..Len(nodes) :
          (/\ nodes[m].info.image = nodes[n].info.image
           /\ nodes[m].info.image = Null => nodes[m].info.color = nodes[n].info.color) =>
              nodes[m].texture = nodes[n].texture
    /\ bindings = Cardinality(DOMAIN _textureDescriptorSets)
    /\ images = Cardinality(DOMAIN _colorData)
    /\ \A s, t \in DOMAIN _textureDescriptorSets :
          _textureDescriptorSets[s] = _textureDescriptorSets[t] => s = t

(* Two nodes without image and of one color, and so of one generated image *)
C14_Witness ==
    /\ Len(nodes) = 2
    /\ nodes[1].info.image = Null
    /\ nodes[2].info.image = Null
    /\ nodes[1].info.color = nodes[2].info.color
    /\ nodes[1].texture = nodes[2].texture
    /\ images = 1

(* C15: createSphere, createCapsule, createCone and createCylinder return    *)
(* the node of the createBox cache for the descriptor, which is the node the *)
(* first of the five functions called with that descriptor returned.         *)
C15_ShapesReturnBox ==
    ret.op \in {"createSphere", "createCapsule", "createCone", "createCylinder", "createBox"} =>
        /\ ret.node = At(_boxes, ret.info)
        /\ ret.node = firstBox[ret.info]
        /\ nodes[ret.node].shape = "box"
        /\ nodes[ret.node].info = ret.info

(* A createCone answered with the box an earlier call of the five built,    *)
(* a quad of the same descriptor having been built before it                 *)
C15_Witness ==
    /\ ret.op = "createCone"
    /\ ret.repeat
    /\ ~ret.built
    /\ ret.node = 2
    /\ Len(nodes) = 2
    /\ nodes[1].shape = "quad"
    /\ nodes[1].info = ret.info

(***************************************************************************)
(*                     Properties of the GlobeTrackball                    *)
(***************************************************************************)

(* C1: after construction and after every event handler the eye has a        *)
(* geodetic altitude of at least minimum_altitude.                           *)
C1_EyeAboveSurface ==
    /\ _lookAt.eye # NaN
    /\ Altitude(_lookAt.eye) >= minimum_altitude

(* C5: after construction and after every rotate, zoom or pan that changes   *)
(* the view, the look-at center has geodetic altitude 0.                     *)
C5_CenterOnSurface ==
    (event.type = "none" \/ (event.type \in {"ScrollWheel", "Frame"} /\ event.changed)) =>
        /\ _lookAt.center # NaN
        /\ Altitude(_lookAt.center) = 0

C7_DivisorNotZero == \A divisor \in divisions : divisor # 0

(* C9, as stated: an event of any type that arrives with its handled flag    *)
(* set leaves the view, the focus flag and the update mode unchanged.        *)
C9_HandledLeavesAll ==
    [][event'.handled =>
          /\ _lookAt' = _lookAt
          /\ _hasFocus' = _hasFocus
          /\ _updateMode' = _updateMode]_vars

(* C9, amended: an event that arrives with its handled flag set leaves the   *)
(* view unchanged, and leaves the focus flag and the update mode unchanged   *)
(* unless it is a button release.                                            *)
C9_HandledLeavesView ==
    [][event'.handled =>
          /\ _lookAt' = _lookAt
          /\ event'.type # "ButtonRelease" =>
                /\ _hasFocus' = _hasFocus
                /\ _updateMode' = _updateMode]_vars

(* A handled button press inside the render area, in the middle of a drag    *)
(* that rotates                                                              *)
C9_Witness ==
    /\ event.type = "ButtonPress"
    /\ event.handled
    /\ event.inside
    /\ _hasFocus
    /\ _updateMode = "ROTATE"
    /\ _rotateAngle # 0

(* C10: without focus the rotate angle, the pan vector and the zoom ratio    *)
(* are zero, and a frame event handled without focus does not change the     *)
(* view.                                                                     *)
C10_IdleWithoutFocus ==
    /\ ~_hasFocus =>
          /\ _rotateAngle = 0
          /\ _pan = <<0, 0>>
          /\ _zoomPreviousRatio = 0
    /\ (event.type = "Frame" /\ ~_hasFocus) => ~event.changed

(* A frame, not the first, since an earlier one turned the view, handled     *)
(* after a press of button 1 outside the render area                         *)
C10_Witness ==
    /\ event.type = "Frame"
    /\ ~_hasFocus
    /\ _updateMode = "ROTATE"
    /\ ~HasNaN(_lookAt)
    /\ _lookAt.up # _homeLookAt.up

(* C11: an unhandled button press sets the update mode by the lowest button  *)
(* of its mask (1 ROTATE, 2 PAN, 3 ZOOM, none INACTIVE), sets the focus to   *)
(* whether it is within the render area, is marked handled exactly when it   *)
(* is within, and zeroes the rotate angle, pan vector and zoom ratio.        *)
C11_PressSetsMode ==
    (event.type = "ButtonPress" /\ ~event.handled) =>
        /\ 1 \in event.mask => _updateMode = "ROTATE"
        /\ (1 \notin event.mask /\ 2 \in event.mask) => _updateMode = "PAN"
        /\ (1 \notin event.mask /\ 2 \notin event.mask /\ 3 \in event.mask) =>
              _updateMode = "ZOOM"
        /\ event.mask \cap {1, 2, 3} = {} => _updateMode = "INACTIVE"
        /\ _hasFocus = event.inside
        /\ event.handledOut = event.inside
        /\ _rotateAngle = 0
        /\ _pan = <<0, 0>>
        /\ _zoomPreviousRatio = 0

(* A press of buttons 2 and 3 within the render area: button 2 wins *)
C11_Witness ==
    /\ event.type = "ButtonPress"
    /\ ~event.handled
    /\ event.mask = {2, 3}
    /\ event.inside
    /\ _updateMode = "PAN"
    /\ _hasFocus

(* C12: after a button press, a button release or a move, handled or not,    *)
(* _lastPointerEventWithinRenderArea tells whether the event's position is   *)
(* within the render area.                                                   *)
C12_LastPointerTracked ==
    event.type \in {"ButtonPress", "ButtonRelease", "Move"} =>
        _lastPointerEventWithinRenderArea = event.inside

(* C13: after an unhandled move without displacement, taken while the        *)
(* trackball has focus, the rotate angle, the pan vector and the zoom ratio  *)
(* are zero.                                                                 *)
C13_StillMoveStops ==
    (event.type = "Move" /\ ~event.handled /\ event.still /\ _hasFocus) =>
        /\ _rotateAngle = 0
        /\ _pan = <<0, 0>>
        /\ _zoomPreviousRatio = 0

====
